---- MODULE Spec2Model ----
(***************************************************************************)
(* Model of summarizer.py: the chunked summarization loop of               *)
(* summarize_document and the retry loop of process_text.                  *)
(*                                                                         *)
(* Texts are sequences of code points.  A backend call                     *)
(* (create_summary) is an input of the model: it returns a text or raises. *)
(***************************************************************************)
EXTENDS Bags, FiniteSets, Integers, Naturals, Sequences, TLC

VARIABLES
    out_exists,                   \* os.path.exists(output_path)
    out_file,                     \* the writes [data, src] the file at output_path holds
    input_text,                   \* the extracted text of the document
    summary_level,                \* args.summary_level
    chunk_size,                   \* summary_levels[summary_level]
    total_chars,
    processed_chars,
    chunk,
    input_text_chunk,             \* the prompt input handed to process_text
    previous_summary_paragraphs,  \* the context window; a paragraph is [text, src], src naming its occurrence
    summary,
    progress,                     \* the printed progress values, <<processed_chars, total_chars>> each
    pc,                           \* position of the run
    error,                        \* the exception that ended the run, or NoError
    retry_count,                  \* process_text's retry counter
    calls,                        \* create_summary calls made by the current process_text invocation
    slept,                        \* bag of the delays the current invocation has slept
    outcomes,                     \* bag of the signals create_summary gave the current invocation
    chunk_no,                     \* number of non-empty chunks read so far
    chunks,                       \* the non-empty chunks read so far
    produced                      \* occurrence <<chunk_no, k>> of every paragraph split from a summary so far

vars == <<out_exists, out_file, input_text, summary_level, chunk_size, total_chars,
          processed_chars, chunk, input_text_chunk,
          previous_summary_paragraphs, summary, progress, pc, error,
          retry_count, calls, slept, outcomes, chunk_no, chunks,
          produced>>

-----------------------------------------------------------------------------
(* Bounds of the model *)

MaxDocLen == 2          \* longest document, in characters
MaxChunkSize == 2       \* largest chunk_size
MaxWords == 3           \* most words in one backend summary
MaxDelay == 1           \* largest "Please retry after N"
MaxFreeCalls == 3       \* most uncounted backend calls in one process_text invocation

(* Program constants *)

max_context_paragraphs == 3
MAX_RETRIES == 5
TIMEOUT_DELAY == 5

-----------------------------------------------------------------------------
(* Texts *)

\* A text is the sequence of the code points of its characters (ord).
NL == 10
SP == 32
CR == 13
FF == 12

\* the 29 characters str.strip() removes (str.isspace): tab, line feed,
\* vertical tab, form feed, carriage return, U+001C to U+001F, space,
\* U+0085, U+00A0, U+1680, U+2000 to U+200A, U+2028, U+2029, U+202F,
\* U+205F and U+3000
Whitespace ==
    {9, NL, 11, FF, CR, 28, 29, 30, 31, SP, 133, 160, 5760}
        \cup (8192..8202) \cup {8232, 8233, 8239, 8287, 12288}

NoError == "NoError"
Unbound == "Unbound"

RECURSIVE Concat(_)
Concat(ss) == IF ss = <<>> THEN <<>> ELSE Head(ss) \o Concat(Tail(ss))

RECURSIVE LStrip(_)
LStrip(s) ==
    IF s # <<>> /\ Head(s) \in Whitespace THEN LStrip(Tail(s)) ELSE s

RECURSIVE RStrip(_)
RStrip(s) ==
    IF s # <<>> /\ s[Len(s)] \in Whitespace
    THEN RStrip(SubSeq(s, 1, Len(s) - 1))
    ELSE s

\* str.strip()
Strip(s) == RStrip(LStrip(s))

\* str.split('\n\n'): cut at each blank-line separator, scanning left to right
RECURSIVE Split(_)
Split(s) ==
    LET hits == {i \in 1..(Len(s) - 1) : s[i] = NL /\ s[i + 1] = NL}
    IN  IF hits = {}
        THEN <<s>>
        ELSE LET i == CHOOSE j \in hits : \A k \in hits : j <= k
             IN  <<SubSeq(s, 1, i - 1)>> \o Split(SubSeq(s, i + 2, Len(s)))

\* "\n\n".join(paragraphs)
RECURSIVE Join(_)
Join(ps) ==
    IF ps = <<>> THEN <<>>
    ELSE IF Len(ps) = 1 THEN ps[1]
    ELSE ps[1] \o <<NL, NL>> \o Join(Tail(ps))

extract_summary_paragraphs(summary_text) ==
    LET paragraphs == Split(summary_text)
    IN  [k \in 1..Len(paragraphs) |-> Strip(paragraphs[k])]

-----------------------------------------------------------------------------
(* Inputs *)

\* "a" to "g"
Letters == <<97, 98, 99, 100, 101, 102, 103>>

\* a document of n characters
Doc(n) == [i \in 1..n |-> Letters[((i - 1) % Len(Letters)) + 1]]

Levels == {"verbose", "transcribe"}

\* <<input_text, chunk_size, summary_level>> of a run
Configs ==
    ({Doc(n) : n \in 0..MaxDocLen} \X (1..MaxChunkSize) \X Levels)
        \cup {<<Doc(250), 100, "verbose">>}

\* "a" or "b"
Word(k) == IF k % 2 = 1 THEN <<97>> ELSE <<98>>

PlainSep == <<NL, NL>>
RaggedSep == <<SP, NL, NL, SP, NL, NL, NL>>

RECURSIVE Words(_, _, _)
Words(k, n, sep) ==
    IF k > n THEN <<>>
    ELSE IF k = n THEN Word(k)
    ELSE Word(k) \o sep \o Words(k + 1, n, sep)

\* the content of a completion: n words, cleanly separated or with ragged
\* whitespace around and between them
Completion(n, ragged) ==
    IF ragged
    THEN <<CR, SP>> \o Words(1, n, RaggedSep) \o <<FF, NL>>
    ELSE Words(1, n, PlainSep)

Completions == {Completion(n, r) : n \in 0..MaxWords, r \in BOOLEAN}

\* the result of re.search(r'Please retry after (\d+)', message): <<>> for no
\* match, <<N>> for a match
RetryAfters == {<<>>} \cup {<<d>> : d \in 1..MaxDelay}

\* What one create_summary call does.  rate_limited: the text or message
\* contains "exceeded token rate limit"; timed_out: the message contains
\* "Request timed out"; retry_after: what the regular expression finds in it.
Returned(text) ==
    [kind |-> "return", text |-> text, rate_limited |-> FALSE,
     timed_out |-> FALSE, retry_after |-> <<>>]
RateLimitText(ra) ==
    [kind |-> "return", text |-> <<>>, rate_limited |-> TRUE,
     timed_out |-> FALSE, retry_after |-> ra]
RequestError(to, rl, ra) ==
    [kind |-> "request_error", text |-> <<>>, rate_limited |-> rl,
     timed_out |-> to, retry_after |-> ra]
OtherError ==
    [kind |-> "other_error", text |-> <<>>, rate_limited |-> FALSE,
     timed_out |-> FALSE, retry_after |-> <<>>]

BackendOutcomes ==
    {Returned(t) : t \in Completions}
        \cup {RateLimitText(ra) : ra \in RetryAfters}
        \cup {RequestError(TRUE, FALSE, <<>>), RequestError(FALSE, FALSE, <<>>)}
        \cup {RequestError(FALSE, TRUE, ra) : ra \in RetryAfters}
        \cup {OtherError}

-----------------------------------------------------------------------------
(* process_text *)

UnknownError == "Exception: Unknown error message when processing text."
TimeoutAllFailed == "Exception: Timeout error. All retries failed."
RateLimitAllFailed == "Exception: Rate limit error. All retries failed."

\* RetryGuard letting the counter reach MAX_RETRIES before the loop ends
RetryGuardInclusive(rc) == rc <= MAX_RETRIES

\* while retry_count < MAX_RETRIES
RetryGuard(rc) == rc < MAX_RETRIES

\* the branch of the try statement one create_summary outcome takes
Branch(o) ==
    IF o.kind = "return"
    THEN IF o.rate_limited
         THEN IF o.retry_after # <<>> THEN "backoff" ELSE "raise_unknown"
         ELSE "return"
    ELSE IF o.kind = "request_error"
    THEN IF o.timed_out THEN "backoff"
         ELSE IF o.rate_limited
         THEN IF o.retry_after # <<>> THEN "backoff" ELSE "again"
         ELSE "reraise"
    ELSE "propagate"

\* what an outcome signals to the caller of create_summary
Class(o) ==
    IF o.kind = "return"
    THEN IF o.rate_limited THEN "rate_limit" ELSE "success"
    ELSE IF o.kind = "request_error" /\ o.timed_out THEN "timeout"
    ELSE IF o.kind = "request_error" /\ o.rate_limited THEN "rate_limit"
    ELSE "error"

\* create_summary returns the completion's content stripped
Signal(o) ==
    [class |-> Class(o), retry_after |-> o.retry_after,
     text |-> Strip(o.text)]

\* Delay taking every raised error for a timeout
DelayFixedForErrors(o) ==
    IF o.kind = "request_error"
    THEN TIMEOUT_DELAY
    ELSE o.retry_after[1]

\* Delay sleeping the fixed delay on every branch
DelayAlwaysFixed(o) == TIMEOUT_DELAY

\* the argument of asyncio.sleep on a "backoff" branch
Delay(o) ==
    IF o.kind = "request_error" /\ o.timed_out
    THEN TIMEOUT_DELAY
    ELSE o.retry_after[1]

\* Raised wrapping a request error in the program's own exception
RaisedWrapped(o) ==
    CASE Branch(o) \in {"raise_unknown", "reraise"} -> UnknownError
      [] Branch(o) = "propagate" -> "OtherException"
      [] OTHER -> NoError

\* the exception an outcome ends process_text with
Raised(o) ==
    CASE Branch(o) = "raise_unknown" -> UnknownError
      [] Branch(o) = "reraise" -> "RequestException"
      [] Branch(o) = "propagate" -> "OtherException"
      [] OTHER -> NoError

\* The name e after the while loop: Python unbinds the target of
\* `except ... as e` when the except clause ends, and binds it never when no
\* exception was caught.
e_after_loop == Unbound

\* lines 173-177, e being Unbound or the caught outcome
ExhaustedError(e) ==
    IF e = Unbound THEN "UnboundLocalError"
    ELSE IF e.timed_out THEN TimeoutAllFailed
    ELSE RateLimitAllFailed

\* str(None)
NoneText == <<78, 111, 110, 101>>

RunVars == <<out_exists, out_file, input_text, summary_level, chunk_size, total_chars,
             processed_chars, chunk, input_text_chunk,
             previous_summary_paragraphs, progress, chunk_no, chunks,
             produced>>

\* one iteration of the while loop: a create_summary call and its handling
\* EntryRetryCount carrying the counter over from the invocation before
EntryRetryCountKept(rc) == rc

\* retry_count at the entry of process_text, whatever it was before
EntryRetryCount(rc) == 0

\* NextPc going on with the run after an exception
NextPcSwallow(branch) ==
    CASE branch = "backoff" -> "sleep"
      [] branch = "again" -> "request"
      [] OTHER -> "update"

\* where an attempt leaves the run: back in summarize_document with a
\* summary, suspended in asyncio.sleep, at the head of the while loop again,
\* or out of the program with the exception, which nothing catches
NextPc(branch) ==
    CASE branch = "return" -> "update"
      [] branch = "backoff" -> "sleep"
      [] branch = "again" -> "request"
      [] OTHER -> "failed"

\* Handle failing at once on the failure that uses up the last attempt
HandleSkippingLastSleep(o) ==
    /\ calls' = calls + 1
    /\ outcomes' = outcomes (+) SetToBag({Signal(o)})
    /\ slept' = IF Branch(o) = "backoff" /\ retry_count + 1 # MAX_RETRIES
                THEN slept (+) SetToBag({Delay(o)})
                ELSE slept
    /\ UNCHANGED retry_count
    /\ summary' = IF Branch(o) = "return" THEN Strip(o.text) ELSE summary
    /\ error' = Raised(o)
    /\ pc' = NextPc(Branch(o))

\* what one pass of the while loop does with the outcome o of its call, as
\* far as its await of asyncio.sleep where it has one: the sleep is begun,
\* the counter is not yet incremented
Handle(o) ==
    /\ calls' = calls + 1
    /\ outcomes' = outcomes (+) SetToBag({Signal(o)})
    /\ slept' = IF Branch(o) = "backoff"
                THEN slept (+) SetToBag({Delay(o)})
                ELSE slept
    /\ UNCHANGED retry_count
    /\ summary' = IF Branch(o) = "return" THEN Strip(o.text) ELSE summary
    /\ error' = Raised(o)
    /\ pc' = NextPc(Branch(o))

\* Attempt resubmitting the chunk without its context after a delay
AttemptDroppingContext ==
    /\ pc = "request"
    /\ RetryGuard(retry_count)
    /\ \E o \in BackendOutcomes :
        /\ Branch(o) = "again" => calls - retry_count < MaxFreeCalls
        /\ Handle(o)
        /\ input_text_chunk' =
              IF Branch(o) = "backoff" THEN chunk ELSE input_text_chunk
    /\ UNCHANGED <<out_exists, out_file, input_text, summary_level,
                   chunk_size, total_chars, processed_chars, chunk,
                   previous_summary_paragraphs, progress, chunk_no, chunks,
                   produced>>

Attempt ==
    /\ pc = "request"
    /\ RetryGuard(retry_count)
    /\ \E o \in BackendOutcomes :
        /\ Branch(o) = "again" => calls - retry_count < MaxFreeCalls
        /\ Handle(o)
    /\ UNCHANGED RunVars

\* the sleep is over: retry_count += 1 and back to the head of the loop
AfterSleep ==
    /\ pc = "sleep"
    /\ retry_count' = retry_count + 1
    /\ pc' = "request"
    /\ UNCHANGED <<calls, slept, outcomes, summary, error>>
    /\ UNCHANGED RunVars

\* the statements after the while loop
AfterLoop ==
    /\ pc = "request"
    /\ ~RetryGuard(retry_count)
    /\ IF retry_count = MAX_RETRIES
       THEN /\ error' = ExhaustedError(e_after_loop)
            /\ pc' = "failed"
            /\ UNCHANGED summary
       ELSE /\ summary' = NoneText
            /\ pc' = "update"
            /\ UNCHANGED error
    /\ UNCHANGED <<retry_count, calls, slept, outcomes>>
    /\ UNCHANGED RunVars

-----------------------------------------------------------------------------
(* summarize_document *)

StaleFile == <<[data |-> <<111, 108, 100, NL, NL>>, src |-> <<0, 0>>]>>

\* Slice starting at the last character of the chunk before
SliceOverlap(text, from, size) ==
    SubSeq(text, IF from = 0 THEN 1 ELSE from,
           IF from + size < Len(text) THEN from + size ELSE Len(text))

\* input_text[processed_chars:processed_chars+chunk_size]
Slice(text, from, size) ==
    SubSeq(text, from + 1,
           IF from + size < Len(text) THEN from + size ELSE Len(text))

\* the paragraphs of the summary of chunk number n, each with its occurrence
Tagged(paragraphs, n) ==
    [k \in 1..Len(paragraphs) |-> [text |-> paragraphs[k], src |-> <<n, k>>]]

Texts(paragraphs) == [k \in 1..Len(paragraphs) |-> paragraphs[k].text]

\* out_f.write(p + "\n\n")
Written(p) == [data |-> p.text \o <<NL, NL>>, src |-> p.src]

\* the prompt input of a chunk
\* "[PREVIOUS_SUMMARY]"
PreviousSummaryLabel ==
    <<91, 80, 82, 69, 86, 73, 79, 85, 83, 95, 83, 85, 77, 77, 65, 82, 89, 93>>

\* "[CURRENT_CHUNK]"
CurrentChunkLabel ==
    <<91, 67, 85, 82, 82, 69, 78, 84, 95, 67, 72, 85, 78, 75, 93>>

\* BuildInput sending no more of the window than its newest paragraph
BuildInputNewestOnly(level, window, c) ==
    IF level = "transcribe"
    THEN c
    ELSE PreviousSummaryLabel \o <<NL, NL>>
            \o (IF window = <<>> THEN <<>> ELSE window[Len(window)].text)
            \o <<NL, NL>> \o CurrentChunkLabel \o <<NL, NL>> \o c

BuildInput(level, window, c) ==
    IF level = "transcribe"
    THEN c
    ELSE PreviousSummaryLabel \o <<NL, NL>> \o Join(Texts(window))
            \o <<NL, NL>> \o CurrentChunkLabel \o <<NL, NL>> \o c

\* EvictLoop writing summary_paragraphs[1] where the code writes the popped
\* summary_paragraphs[0]
RECURSIVE EvictLoopWrongIndex(_, _)
EvictLoopWrongIndex(summary_paragraphs, written) ==
    IF Len(summary_paragraphs) > max_context_paragraphs
    THEN EvictLoopWrongIndex(Tail(summary_paragraphs),
                             Append(written, Written(summary_paragraphs[2])))
    ELSE [window |-> summary_paragraphs, written |-> written]

\* EvictLoop stopping one paragraph early
RECURSIVE EvictLoopOffByOne(_, _)
EvictLoopOffByOne(summary_paragraphs, written) ==
    IF Len(summary_paragraphs) > max_context_paragraphs + 1
    THEN EvictLoopOffByOne(Tail(summary_paragraphs),
                           Append(written, Written(Head(summary_paragraphs))))
    ELSE [window |-> summary_paragraphs, written |-> written]

\* while len(summary_paragraphs) > max_context_paragraphs: write and pop the
\* first; the result is what is left and what was written
RECURSIVE EvictLoop(_, _)
EvictLoop(summary_paragraphs, written) ==
    IF Len(summary_paragraphs) > max_context_paragraphs
    THEN EvictLoop(Tail(summary_paragraphs),
                   Append(written, Written(Head(summary_paragraphs))))
    ELSE [window |-> summary_paragraphs, written |-> written]

\* lines 243-247: the new summary's paragraphs go through the eviction loop
\* and what is left of them becomes the window
WindowUpdate(previous, summary_paragraphs) ==
    EvictLoop(summary_paragraphs, <<>>)

\* Advance by the chunk size instead of the chunk's length
AdvanceByChunkSize(processed, c, size) == processed + size

\* processed_chars += len(chunk)
Advance(processed, c, size) == processed + Len(c)

\* while previous_summary_paragraphs: write and pop the first
RECURSIVE FlushLoop(_, _)
FlushLoop(window, written) ==
    IF window # <<>>
    THEN FlushLoop(Tail(window), Append(written, Written(Head(window))))
    ELSE [window |-> window, written |-> written]

RetryVars == <<retry_count, calls, slept, outcomes>>

\* RemoveThenOpen leaving the file that exists in place
OpenWithoutRemove(file) == file

\* os.remove(output_path) where the file exists, then open(output_path, "a"):
\* what the file holds when the loop starts
RemoveThenOpen(file) == <<>>

\* from the entry of summarize_document to the first iteration of its loop
Begin ==
    /\ pc = "start"
    /\ \/ /\ out_exists' = TRUE
          /\ out_file' = RemoveThenOpen(out_file)
          /\ total_chars' = Len(input_text)
          /\ pc' = "loop"
          /\ UNCHANGED error
       \* os.remove raises: nothing was removed
       \/ /\ out_exists
          /\ error' = "OSError"
          /\ pc' = "failed"
          /\ UNCHANGED <<out_exists, out_file, total_chars>>
       \* the extraction of lines 203-213 raises, the old file being gone
       \/ /\ out_exists' = FALSE
          /\ out_file' = <<>>
          /\ error' = "OtherException"
          /\ pc' = "failed"
          /\ UNCHANGED total_chars
       \* open(output_path, "a") raises, the old file being gone
       \/ /\ out_exists' = FALSE
          /\ out_file' = <<>>
          /\ total_chars' = Len(input_text)
          /\ error' = "OSError"
          /\ pc' = "failed"
    /\ UNCHANGED <<input_text, summary_level, chunk_size, processed_chars,
                   chunk, input_text_chunk, previous_summary_paragraphs,
                   summary, progress, chunk_no, chunks, produced>>
    /\ UNCHANGED RetryVars

\* the head of the loop: the next chunk, the prompt input and the entry of
\* process_text, or the break
ReadChunk ==
    /\ pc = "loop"
    /\ LET c == Slice(input_text, processed_chars, chunk_size)
       IN  /\ chunk' = c
           /\ processed_chars' = Advance(processed_chars, c, chunk_size)
           /\ IF c = <<>>
              THEN /\ pc' = "flush"
                   /\ UNCHANGED <<input_text_chunk, chunk_no, chunks>>
                   /\ UNCHANGED RetryVars
              ELSE /\ input_text_chunk' =
                          BuildInput(summary_level,
                                     previous_summary_paragraphs, c)
                   /\ chunk_no' = chunk_no + 1
                   /\ chunks' = Append(chunks, c)
                   /\ retry_count' = EntryRetryCount(retry_count)
                   /\ calls' = 0
                   /\ slept' = EmptyBag
                   /\ outcomes' = EmptyBag
                   /\ pc' = "request"
    /\ UNCHANGED <<out_exists, out_file, input_text, summary_level,
                   chunk_size, total_chars, previous_summary_paragraphs,
                   summary, progress, error, produced>>

\* HasSummary taking every return of process_text for a summary
HasSummaryAlways(s) == TRUE

\* the test `if summary:` on a string
HasSummary(s) == s # <<>>

\* from the return of process_text to the end of the iteration
UpdateWindow ==
    /\ pc = "update"
    /\ IF HasSummary(summary)
       THEN LET summary_paragraphs ==
                    Tagged(extract_summary_paragraphs(summary), chunk_no)
                r == WindowUpdate(previous_summary_paragraphs,
                                  summary_paragraphs)
            IN  /\ out_file' = out_file \o r.written
                /\ previous_summary_paragraphs' = r.window
                /\ produced' = produced \o
                        [k \in 1..Len(summary_paragraphs) |->
                            summary_paragraphs[k].src]
       ELSE UNCHANGED <<out_file, previous_summary_paragraphs, produced>>
    /\ progress' = Append(progress, <<processed_chars, total_chars>>)
    /\ pc' = "loop"
    /\ UNCHANGED <<out_exists, input_text, summary_level, chunk_size,
                   total_chars, processed_chars, chunk, input_text_chunk,
                   summary, error, chunk_no, chunks>>
    \* the invocation of process_text is over: its record is dropped
    /\ calls' = 0
    /\ slept' = EmptyBag
    /\ outcomes' = EmptyBag
    /\ UNCHANGED retry_count

\* the statements after the loop
Flush ==
    /\ pc = "flush"
    /\ LET r == FlushLoop(previous_summary_paragraphs, <<>>)
       IN  /\ out_file' = out_file \o r.written
           /\ previous_summary_paragraphs' = r.window
    /\ pc' = "done"
    /\ UNCHANGED <<out_exists, input_text, summary_level, chunk_size,
                   total_chars, processed_chars, chunk, input_text_chunk,
                   summary, progress, error, chunk_no, chunks, produced>>
    /\ UNCHANGED RetryVars

-----------------------------------------------------------------------------

Init ==
    /\ \/ out_exists = FALSE /\ out_file = <<>>
       \/ out_exists = TRUE /\ out_file = StaleFile
    /\ \E cfg \in Configs :
        /\ input_text = cfg[1]
        /\ chunk_size = cfg[2]
        /\ summary_level = cfg[3]
    /\ total_chars = 0
    /\ processed_chars = 0
    /\ chunk = <<>>
    /\ input_text_chunk = <<>>
    /\ previous_summary_paragraphs = <<>>
    /\ summary = <<>>
    /\ progress = <<>>
    /\ pc = "start"
    /\ error = NoError
    /\ retry_count = 0
    /\ calls = 0
    /\ slept = EmptyBag
    /\ outcomes = EmptyBag
    /\ chunk_no = 0
    /\ chunks = <<>>
    /\ produced = <<>>

Next ==
    \/ Begin
    \/ ReadChunk
    \/ Attempt
    \/ AfterSleep
    \/ AfterLoop
    \/ UpdateWindow
    \/ Flush

Spec == Init /\ [][Next]_vars

-----------------------------------------------------------------------------
(* Properties *)

Max(a, b) == IF a > b THEN a ELSE b

\* occurrence s was split from a summary before occurrence t
Before(s, t) == s[1] < t[1] \/ (s[1] = t[1] /\ s[2] < t[2])

\* what this run wrote to the file, a file left from before the run apart
IsRunWrite(w) == w.src[1] > 0
RunWrites == SelectSeq(out_file, IsRunWrite)

WrittenSrcs == {RunWrites[j].src : j \in 1..Len(RunWrites)}

\* C1: when a run completes, every paragraph split from a summary of the run
\* is in the output file.
C1_NoLoss ==
    pc = "done" => \A k \in 1..Len(produced) : produced[k] \in WrittenSrcs

\* C2: the paragraphs in the output file are distinct occurrences of
\* paragraphs the summaries produced, each written with its own text followed
\* by a blank line, in the order in which the summaries produced them.
C2_NoDuplicationInOrder ==
    /\ \A i, j \in 1..Len(RunWrites) :
          i < j => Before(RunWrites[i].src, RunWrites[j].src)
    /\ \A i \in 1..Len(RunWrites) :
          \E k \in 1..Len(produced) : produced[k] = RunWrites[i].src

\* a completed run that wrote evicted paragraphs of one chunk and flushed
\* paragraphs of the window
C2_Witness ==
    /\ pc = "done"
    /\ Len(out_file) >= 5
    /\ \E i, j \in 1..Len(out_file) : out_file[i].src[1] # out_file[j].src[1]

\* C3: the context window never holds more than max_context_paragraphs
\* paragraphs.
C3_WindowBounded ==
    Len(previous_summary_paragraphs) <= max_context_paragraphs

\* an update has cut a summary of more than max_context_paragraphs
\* paragraphs down to a full window
C3_Witness ==
    /\ pc = "loop"
    /\ Len(previous_summary_paragraphs) = max_context_paragraphs
    /\ \E j \in 1..Len(out_file) :
          out_file[j].src[1] = previous_summary_paragraphs[1].src[1]

\* an update that evicts from the list `all` of paragraph texts: the
\* overflow oldest are written, each followed by a blank line, and the rest
\* is the window
EvictsOldestOf(all) ==
    LET overflow == Max(Len(all) - max_context_paragraphs, 0)
    IN  /\ Texts(previous_summary_paragraphs') =
              SubSeq(all, overflow + 1, Len(all))
        /\ Len(out_file') = Len(out_file) + overflow
        /\ \A k \in 1..overflow :
              out_file'[Len(out_file) + k].data = all[k] \o <<NL, NL>>

\* C4: an update with a non-empty summary appends the summary's paragraphs
\* P to the window W and evicts the overflow oldest paragraphs of W
\* followed by P.
C4_AppendThenEvict ==
    [][(pc = "update" /\ summary # <<>>) =>
          EvictsOldestOf(Texts(previous_summary_paragraphs)
                            \o extract_summary_paragraphs(summary))]_vars

RECURSIVE SumLen(_)
SumLen(ss) == IF ss = <<>> THEN 0 ELSE Len(Head(ss)) + SumLen(Tail(ss))

\* C5: the chunks read are non-empty slices of at most chunk_size characters,
\* each starting where the one before ended; processed_chars is the sum of
\* their lengths; their concatenation is the text read so far and, when the
\* loop has ended, the whole text in ceil(len/chunk_size) chunks.
C5_ChunksPartitionText ==
    /\ processed_chars = SumLen(chunks)
    /\ processed_chars <= Len(input_text)
    /\ \A i \in 1..Len(chunks) :
          LET start == SumLen(SubSeq(chunks, 1, i - 1))
          IN  /\ Len(chunks[i]) \in 1..chunk_size
              /\ start + Len(chunks[i]) <= Len(input_text)
              /\ chunks[i] = SubSeq(input_text, start + 1,
                                    start + Len(chunks[i]))
    /\ processed_chars <= Len(input_text) =>
          Concat(chunks) = SubSeq(input_text, 1, processed_chars)
    /\ pc = "request" => chunk = chunks[Len(chunks)]
    /\ pc \in {"flush", "done"} =>
          /\ Concat(chunks) = input_text
          /\ Len(chunks) = (Len(input_text) + chunk_size - 1) \div chunk_size

\* a completed run over several chunks, the last of them short
C5_Witness ==
    /\ pc = "done"
    /\ Len(chunks) >= 3
    /\ Len(chunks[Len(chunks)]) < chunk_size

Percent(pr) == (pr[1] * 100) \div pr[2]

\* C6: the progress values never decrease and never exceed the total, the
\* last one of a completed run is the total, and a 250-character document at
\* chunk_size 100 reports 40%, 80%, 100%.
C6_ProgressMonotone ==
    /\ pc # "start" => processed_chars <= total_chars
    /\ \A i \in 1..Len(progress) :
          /\ progress[i][2] = total_chars
          /\ progress[i][1] <= progress[i][2]
    /\ \A i, j \in 1..Len(progress) :
          i < j => progress[i][1] * progress[j][2]
                      <= progress[j][1] * progress[i][2]
    /\ (pc \in {"flush", "done"} /\ progress # <<>>) =>
          progress[Len(progress)] = <<total_chars, total_chars>>
    /\ (pc = "done" /\ Len(input_text) = 250 /\ chunk_size = 100) =>
          /\ [i \in 1..Len(progress) |-> Percent(progress[i])]
                = <<40, 80, 100>>
          /\ \A i \in 1..Len(progress) :
                (progress[i][1] * 100) % progress[i][2] = 0

\* the 250-character document has been processed to the end
C6_Witness ==
    /\ pc = "done"
    /\ Len(input_text) = 250
    /\ chunk_size = 100
    /\ Len(progress) = 3

Signals == BagToSet(outcomes)
FailureSignals == {g \in Signals : g.class # "success"}

RateLimitSignal(n) ==
    [class |-> "rate_limit", retry_after |-> <<n>>, text |-> <<>>]
TimeoutSignal == [class |-> "timeout", retry_after |-> <<>>, text |-> <<>>]

\* C7: when process_text has returned after k attempts that all signalled
\* rate-limiting with the same extractable delay N, it has slept N exactly
\* k times and nothing else, made k + 1 backend calls with k < MAX_RETRIES,
\* and returned the text of the successful call.
C7_RateLimitedThenSuccess ==
    (/\ pc = "update"
     /\ Cardinality(FailureSignals) <= 1
     /\ \A f \in FailureSignals :
           f.class = "rate_limit" /\ f.retry_after # <<>>) =>
        LET k == BagCardinality(outcomes) - 1
        IN  /\ k < MAX_RETRIES
            /\ calls = k + 1
            /\ BagCardinality(slept) = k
            /\ \A f \in FailureSignals :
                  CopiesIn(f.retry_after[1], slept) = k
            /\ error = NoError
            /\ \E g \in Signals :
                  /\ g.class = "success"
                  /\ CopiesIn(g, outcomes) = 1
                  /\ summary = g.text

\* process_text has returned a text on the third attempt after two
\* rate-limit signals carrying a delay
C7_Witness ==
    /\ pc = "update"
    /\ summary # <<>>
    /\ \E n \in 1..MaxDelay :
          /\ FailureSignals = {RateLimitSignal(n)}
          /\ CopiesIn(RateLimitSignal(n), outcomes) = 2
          /\ calls = 3

\* C8: once an attempt has signalled rate-limiting without an extractable
\* delay, process_text has failed with the unknown-error exception.
C8_NoDelayFailsAtOnce ==
    (\E g \in Signals : g.class = "rate_limit" /\ g.retry_after = <<>>) =>
        (pc = "failed" /\ error = UnknownError)

TimeoutsOnly == outcomes # EmptyBag /\ Signals = {TimeoutSignal}

\* C9: while every backend call of an invocation has timed out, at most
\* MAX_RETRIES calls have been made, each of them followed by the fixed
\* delay and counted once the delay is over, and no summary has been
\* returned; the invocation fails only after MAX_RETRIES of them, with an
\* exception.
C9_TimeoutsExhaustAfterFive ==
    TimeoutsOnly =>
        /\ calls = BagCardinality(outcomes)
        /\ calls <= MAX_RETRIES
        /\ pc \in {"request", "sleep", "failed"}
        /\ CopiesIn(TIMEOUT_DELAY, slept) = calls
        /\ retry_count = IF pc = "sleep" THEN calls - 1 ELSE calls
        /\ pc = "failed" => (calls = MAX_RETRIES /\ error # NoError)

\* process_text has failed after five timeouts
C9_Witness ==
    /\ pc = "failed"
    /\ TimeoutsOnly
    /\ calls = MAX_RETRIES
    /\ CopiesIn(TIMEOUT_DELAY, slept) = MAX_RETRIES

\* C10: when process_text fails with the counter at MAX_RETRIES, the
\* exception is the timeout variant after timeouts and the rate-limit
\* variant after rate-limit signals, and nothing else.
C10_ExhaustionTagged ==
    (pc = "failed" /\ retry_count = MAX_RETRIES) =>
        /\ error \in {TimeoutAllFailed, RateLimitAllFailed}
        /\ TimeoutsOnly => error = TimeoutAllFailed
        /\ (\A g \in Signals : g.class = "rate_limit") =>
              error = RateLimitAllFailed

\* C11: what a file held before the run is gone before the run writes: a
\* run past its start holds an old paragraph in its file only if the removal
\* failed, and then the run has failed with the old file untouched, no chunk
\* read, no backend call made and nothing reported. A run that goes on has
\* its file open with nothing but its own paragraphs in it, and a run that
\* fails before its first chunk has written nothing and called nothing.
C11_OldFileRemovedFirst ==
    /\ pc = "start" => (out_exists <=> out_file = StaleFile)
    /\ (pc # "start" /\ \E i \in 1..Len(out_file) : ~IsRunWrite(out_file[i]))
       => /\ pc = "failed"
          /\ error = "OSError"
          /\ out_exists
          /\ out_file = StaleFile
          /\ chunk_no = 0
          /\ calls = 0
          /\ outcomes = EmptyBag
          /\ progress = <<>>
    /\ pc \notin {"start", "failed"} => out_exists
    /\ (pc = "failed" /\ chunk_no = 0) =>
          /\ calls = 0
          /\ progress = <<>>
          /\ out_file \in {<<>>, StaleFile}
          /\ out_file = <<>> => ~out_exists

\* a removal failure has ended a run that found an old file
C11_Witness ==
    /\ pc = "failed"
    /\ error = "OSError"
    /\ out_exists
    /\ out_file = StaleFile

\* characters of carried-forward context and of chunk in the next request
RequestSize ==
    Len(Join(Texts(previous_summary_paragraphs))) + Len(chunk)

\* a request budget that admits the chunk and one character of context
RequestBudget == chunk_size + 1

\* C12 as the specification states it: no request that carries a non-empty
\* window is larger than the request budget.
C12_TrimmedToBudget ==
    (pc = "request" /\ summary_level # "transcribe"
        /\ previous_summary_paragraphs # <<>>)
    => RequestSize <= RequestBudget

\* C12 as the program has it: a request is built from the whole window and
\* the chunk, whatever their size. While a request is pending the window
\* holds at most max_context_paragraphs paragraphs, none of which has been
\* written out, the output holds only paragraphs of earlier chunks, and the
\* prompt is as long as its two labels, every window paragraph with its
\* separators, and the chunk; at the transcribe level it is the chunk alone.
\* The step from reading a chunk to its request changes neither the window
\* nor the file.
C12_WholeWindowSent ==
    /\ [](pc = "request" =>
          /\ Len(previous_summary_paragraphs) <= max_context_paragraphs
          /\ \A k \in 1..Len(previous_summary_paragraphs) :
                previous_summary_paragraphs[k].src \notin WrittenSrcs
          /\ \A j \in 1..Len(RunWrites) : RunWrites[j].src[1] < chunk_no
          /\ summary_level = "transcribe" => input_text_chunk = chunk
          /\ summary_level # "transcribe" =>
                Len(input_text_chunk) =
                    39 + SumLen(Texts(previous_summary_paragraphs))
                      + 2 * Max(Len(previous_summary_paragraphs) - 1, 0)
                      + Len(chunk))
    /\ [][(pc = "loop" /\ pc' = "request") =>
            UNCHANGED <<previous_summary_paragraphs, out_file>>]_vars

\* a request carrying a full window that is larger than the budget
C12_Witness ==
    /\ pc = "request"
    /\ summary_level # "transcribe"
    /\ Len(previous_summary_paragraphs) = max_context_paragraphs
    /\ RequestSize > RequestBudget

\* C13: one invocation of process_text makes at most MAX_RETRIES backend
\* calls.
C13_AtMostMaxCalls == calls <= MAX_RETRIES

\* the signal of the call a step has just made
NewSignal ==
    CHOOSE g \in BagToSet(outcomes') :
        CopiesIn(g, outcomes') > CopiesIn(g, outcomes)

\* C14: the delay slept after a call depends on that call's failure alone:
\* the fixed TIMEOUT_DELAY after a timeout, the number of seconds of its
\* own message after a rate limit that names one, and no delay otherwise;
\* what was slept before is neither changed nor used.
C14_DelayFromThisFailure ==
    [][(pc = "request" /\ calls' = calls + 1) =>
          LET g == NewSignal
          IN  slept' = slept (+)
                (IF g.class = "timeout"
                 THEN SetToBag({TIMEOUT_DELAY})
                 ELSE IF g.class = "rate_limit" /\ g.retry_after # <<>>
                 THEN SetToBag({g.retry_after[1]})
                 ELSE EmptyBag)]_vars

\* one invocation has slept the fixed delay and a delay of a message
C14_Witness ==
    /\ pc = "request"
    /\ CopiesIn(TIMEOUT_DELAY, slept) >= 1
    /\ \E n \in BagToSet(slept) : n # TIMEOUT_DELAY
    /\ \E g \in Signals : g.class = "timeout"
    /\ \E g \in Signals : g.class = "rate_limit" /\ g.retry_after # <<>>

\* a failure the loop answers with a delay and another attempt
Retryable(g) ==
    \/ g.class = "timeout"
    \/ g.class = "rate_limit" /\ g.retry_after # <<>>

\* C15: a failure that is neither a rate limit nor a timeout ends the run
\* where it first occurs, with the exception the backend call raised; a run
\* that has failed after nothing but retryable failures has used up its
\* MAX_RETRIES attempts.
C15_ErrorPropagation ==
    /\ \A g \in Signals : g.class = "error" =>
          /\ pc = "failed"
          /\ error \in {"RequestException", "OtherException"}
          /\ CopiesIn(g, outcomes) = 1
          /\ \A h \in Signals : h.class # "success"
    /\ (pc = "failed" /\ calls >= 1 /\ \A g \in Signals : Retryable(g))
       => (retry_count = MAX_RETRIES /\ calls = MAX_RETRIES)

\* a request error that is neither has ended a run after a retry
C15_Witness ==
    /\ pc = "failed"
    /\ error = "RequestException"
    /\ retry_count >= 1
    /\ \E g \in Signals : Retryable(g)

\* C16: chunks are served one after the other and a failure ends the run.
\* A request is pending only when every earlier chunk has had its update;
\* a raised error leaves the run failed, and a failed run takes no further
\* step; the step that fails a request writes nothing, so the file holds
\* what was written for earlier chunks and no paragraph of the window.
C16_SequentialAbort ==
    /\ [](pc \in {"request", "sleep", "update"} =>
            Len(progress) = chunk_no - 1)
    /\ [](error # NoError => pc = "failed")
    /\ [][pc # "failed"]_vars
    /\ [][(pc # "start" /\ pc' = "failed") =>
            UNCHANGED <<out_file, previous_summary_paragraphs, progress>>]_vars
    /\ []((pc = "failed" /\ chunk_no >= 1) =>
            /\ Len(progress) = chunk_no - 1
            /\ \A j \in 1..Len(RunWrites) : RunWrites[j].src[1] < chunk_no
            /\ \A k \in 1..Len(previous_summary_paragraphs) :
                  /\ previous_summary_paragraphs[k].src \notin WrittenSrcs
                  /\ previous_summary_paragraphs[k].src[1] < chunk_no)

\* the second chunk's request has failed after paragraphs of the first were
\* written, with others still in the window
C16_Witness ==
    /\ pc = "failed"
    /\ chunk_no = 2
    /\ RunWrites # <<>>
    /\ previous_summary_paragraphs # <<>>
    /\ Len(progress) = 1

\* C17: while a chunk's request is pending, between its attempts and during
\* their delays, no step changes the prompt, the
\* window, the chunk, processed_chars or the output file, and the prompt is
\* the one built from that window and that chunk: every attempt carries the
\* same input.
C17_RetriesResubmitSamePrompt ==
    /\ [][(pc = "request" \/ pc = "sleep") =>
            UNCHANGED <<input_text_chunk, previous_summary_paragraphs, chunk,
                        processed_chars, out_file, chunk_no>>]_vars
    /\ [](pc \in {"request", "sleep"} =>
            input_text_chunk =
                BuildInput(summary_level, previous_summary_paragraphs, chunk))

\* the second chunk's request is pending after two delays, with context
C17_Witness ==
    /\ pc = "request"
    /\ chunk_no = 2
    /\ retry_count >= 2
    /\ summary_level # "transcribe"
    /\ previous_summary_paragraphs # <<>>
    /\ input_text_chunk # chunk

\* C18 as the specification states it: a delay is only waited out when a
\* resubmission follows it, so none is waited out after the failure that
\* brings the attempt counter to MAX_RETRIES.
C18_NoDelayAfterLastAttempt ==
    pc = "sleep" => retry_count + 1 < MAX_RETRIES

\* the retryable failures of the current invocation
RetryableOutcomes ==
    [g \in {x \in Signals : Retryable(x)} |-> CopiesIn(g, outcomes)]

\* C18 as the program has it: every retryable failure is followed by its
\* delay, the one that brings the counter to MAX_RETRIES included, and is
\* counted when the delay is over, so the delays are as many as the
\* retryable failures, and as the counter once the delay is over; the
\* failure by exhaustion comes after MAX_RETRIES delays, and only a failure
\* that is not retryable fails the invocation without a delay, with the
\* counter below MAX_RETRIES.
C18_DelayAfterEveryRetryable ==
    pc \in {"request", "sleep", "update", "failed"} =>
        /\ BagCardinality(slept) =
              retry_count + (IF pc = "sleep" THEN 1 ELSE 0)
        /\ BagCardinality(slept) = BagCardinality(RetryableOutcomes)
        /\ (pc = "failed" /\ error = ExhaustedError(e_after_loop)) =>
              /\ BagCardinality(slept) = MAX_RETRIES
              /\ \A g \in Signals : g.class \notin {"success", "error"}
        /\ (pc = "failed" /\ calls >= 1
                /\ error \in {UnknownError, "RequestException",
                              "OtherException"}) =>
              /\ retry_count < MAX_RETRIES
              /\ \E g \in Signals : ~Retryable(g) /\ g.class # "success"

\* an invocation has failed by exhaustion after as many delays as calls
C18_Witness ==
    /\ pc = "failed"
    /\ retry_count = MAX_RETRIES
    /\ calls = MAX_RETRIES
    /\ BagCardinality(slept) = MAX_RETRIES

\* C19: the attempt counter belongs to one chunk's request and is shared by
\* both failure classes. It counts the retryable failures of the current
\* invocation and nothing else, timeouts and rate limits together, so a
\* chunk starts at zero whatever earlier chunks used, and it never exceeds
\* MAX_RETRIES.
C19_CounterPerChunkShared ==
    /\ retry_count <= MAX_RETRIES
    /\ pc = "request" =>
          /\ retry_count = BagCardinality(RetryableOutcomes)
          /\ calls = 0 => retry_count = 0
    /\ pc = "sleep" => retry_count + 1 = BagCardinality(RetryableOutcomes)

\* the second chunk's request has used up its attempts on timeouts and rate
\* limits together
C19_Witness ==
    /\ pc = "request"
    /\ chunk_no = 2
    /\ retry_count = MAX_RETRIES
    /\ \E g \in Signals : g.class = "timeout"
    /\ \E g \in Signals : g.class = "rate_limit"

\* C20: a chunk whose summary comes back empty changes neither the window
\* nor the output file nor the record of what was written; its progress is
\* reported with processed_chars already advanced by the chunk's length,
\* and the run goes on with the next chunk.
C20_EmptySummaryChangesNothing ==
    /\ [][(pc = "update" /\ summary = <<>>) =>
            /\ UNCHANGED <<previous_summary_paragraphs, out_file, produced,
                           processed_chars>>
            /\ progress' = Append(progress, <<processed_chars, total_chars>>)
            /\ pc' = "loop"]_vars
    /\ [](pc = "update" => processed_chars = SumLen(chunks))

\* the second chunk's summary came back empty and the window of the first
\* is still there
C20_Witness ==
    /\ pc = "loop"
    /\ chunk_no = 2
    /\ summary = <<>>
    /\ Len(progress) = 2
    /\ previous_summary_paragraphs # <<>>
    /\ \A k \in 1..Len(previous_summary_paragraphs) :
          previous_summary_paragraphs[k].src[1] = 1

====
